---- MODULE Spec2Model ----
(***************************************************************************)
(* GTM B2B outreach pipeline (ai_email_gtm_outreach_agent.py).             *)
(*                                                                         *)
(* Texts are sequences of one-character strings over Alphabet.  Positions  *)
(* are 0-based, as in Python.  A JSON value is a record [type, v] whose    *)
(* type is the Python type name ("dict", "list", "str") and whose v is:    *)
(* for a str the sequence of its characters, for a list the sequence of    *)
(* its items, for a dict the sequence of its items [k, val] in insertion   *)
(* order.  Over Alphabet no JSON number or literal (null, true, false,     *)
(* NaN, Infinity) can be spelled, and no escape or control character       *)
(* occurs, so json.loads restricted to these texts knows exactly the       *)
(* three value types above.                                                *)
(***************************************************************************)
EXTENDS Integers, Sequences, FiniteSets, TLC

QUOTE == "\""

Letters == {"c", "o", "m", "p", "a", "n", "i", "e", "s", "l"}

Alphabet == Letters \cup {"{", "}", "[", "]", ",", ":", QUOTE, " "}

WHITESPACE == {" "}

None == [type |-> "NoneType", v |-> <<>>]

PyStr(cs) == [type |-> "str", v |-> cs]

PyList(xs) == [type |-> "list", v |-> xs]

PyDict(items) == [type |-> "dict", v |-> items]

EmptyList == PyList(<<>>)

KeyCompanies == <<"c", "o", "m", "p", "a", "n", "i", "e", "s">>

KeyEmails == <<"e", "m", "a", "i", "l", "s">>

(***************************************************************************)
(* Python helpers: s[i:i+1], s[a:b], min, max, str(int), truthiness.       *)
(***************************************************************************)
Ch(s, i) == IF i >= 0 /\ i < Len(s) THEN s[i + 1] ELSE ""

Slice(s, a, b) == SubSeq(s, a + 1, IF b < Len(s) THEN b ELSE Len(s))

Min(a, b) == IF a < b THEN a ELSE b

Max(a, b) == IF a > b THEN a ELSE b

DigitChar(d) == <<"0", "1", "2", "3", "4", "5", "6", "7", "8", "9">>[d + 1]

RECURSIVE IntStr(_)
IntStr(n) == IF n < 10 THEN <<DigitChar(n)>> ELSE IntStr(n \div 10) \o <<DigitChar(n % 10)>>

Truthy(x) == Len(x.v) > 0

(***************************************************************************)
(* Outcome of a call: a returned value or a raised exception with its      *)
(* str() as a sequence of strings (fixed phrases are single elements, the  *)
(* characters of an embedded text are one element each).                   *)
(***************************************************************************)
Return(val) == [raised |-> FALSE, value |-> val, exc |-> "", msg |-> <<>>]

Raise(exc, msg) == [raised |-> TRUE, value |-> None, exc |-> exc, msg |-> msg]

(***************************************************************************)
(* json.loads (json.decoder / json.scanner), restricted to Alphabet.       *)
(* A scan result is [ok, val, end, msg]: on success the value and the      *)
(* index after it, on failure the JSONDecodeError's msg and pos (in end).  *)
(***************************************************************************)
ScanOk(val, end) == [ok |-> TRUE, val |-> val, end |-> end, msg |-> ""]

ScanErr(msg, pos) == [ok |-> FALSE, val |-> None, end |-> pos, msg |-> msg]

RECURSIVE SkipWs(_, _)
SkipWs(s, i) == IF i < Len(s) /\ s[i + 1] \in WHITESPACE THEN SkipWs(s, i + 1) ELSE i

RECURSIVE FindQuote(_, _)
FindQuote(s, i) ==
    IF i >= Len(s) THEN -1
    ELSE IF s[i + 1] = QUOTE THEN i
    ELSE FindQuote(s, i + 1)

\* scanstring(s, end): end is the index after the opening quote.
scanstring(s, end) ==
    LET close == FindQuote(s, end)
    IN  IF close = -1
        THEN ScanErr("Unterminated string starting at", end - 1)
        ELSE ScanOk(Slice(s, end, close), close + 1)

\* dict(pairs): a repeated key keeps its first position and takes the last value.
DictSet(items, k, val) ==
    IF \E i \in 1..Len(items) : items[i].k = k
    THEN [i \in 1..Len(items) |->
            IF items[i].k = k THEN [k |-> k, val |-> val] ELSE items[i]]
    ELSE Append(items, [k |-> k, val |-> val])

RECURSIVE scan_once(_, _)
RECURSIVE ObjectLoop(_, _, _)
RECURSIVE ArrayLoop(_, _, _)

\* JSONObject's while loop; end is the index of the key's first character.
ObjectLoop(s, end0, items) ==
    LET key == scanstring(s, end0)
    IN  IF ~key.ok THEN key
        ELSE
        LET colon == IF Ch(s, key.end) = ":" THEN key.end ELSE SkipWs(s, key.end)
        IN  IF Ch(s, colon) # ":" THEN ScanErr("Expecting ':' delimiter", colon)
            ELSE
            LET value == scan_once(s, SkipWs(s, colon + 1))
            IN  IF ~value.ok THEN value
                ELSE
                LET items1 == DictSet(items, key.val, value.val)
                    end1 == SkipWs(s, value.end)
                    nextchar == Ch(s, end1)
                IN  IF nextchar = "}" THEN ScanOk(PyDict(items1), end1 + 1)
                    ELSE IF nextchar # "," THEN ScanErr("Expecting ',' delimiter", end1)
                    ELSE
                    LET end2 == SkipWs(s, end1 + 1)
                    IN  IF Ch(s, end2) # QUOTE
                        THEN ScanErr("Expecting property name enclosed in double quotes", end2)
                        ELSE ObjectLoop(s, end2 + 1, items1)

\* JSONObject(s, end): end is the index after the opening brace.
JSONObject(s, end0) ==
    LET end1 == IF Ch(s, end0) \in WHITESPACE THEN SkipWs(s, end0) ELSE end0
        nextchar == Ch(s, end1)
    IN  IF nextchar = "}" THEN ScanOk(PyDict(<<>>), end1 + 1)
        ELSE IF nextchar # QUOTE
        THEN ScanErr("Expecting property name enclosed in double quotes", end1)
        ELSE ObjectLoop(s, end1 + 1, <<>>)

\* JSONArray's while loop; end is the index where the next item starts.
ArrayLoop(s, end0, values) ==
    LET value == scan_once(s, end0)
    IN  IF ~value.ok THEN value
        ELSE
        LET values1 == Append(values, value.val)
            end1 == SkipWs(s, value.end)
            nextchar == Ch(s, end1)
        IN  IF nextchar = "]" THEN ScanOk(PyList(values1), end1 + 1)
            ELSE IF nextchar # "," THEN ScanErr("Expecting ',' delimiter", end1)
            ELSE ArrayLoop(s, SkipWs(s, end1 + 1), values1)

\* JSONArray(s, end): end is the index after the opening bracket.
JSONArray(s, end0) ==
    LET end1 == SkipWs(s, end0)
    IN  IF Ch(s, end1) = "]" THEN ScanOk(PyList(<<>>), end1 + 1)
        ELSE ArrayLoop(s, end1, <<>>)

\* scanner: a StopIteration becomes "Expecting value" at the index it carries.
scan_once(s, idx) ==
    LET nextchar == Ch(s, idx)
    IN  IF nextchar = QUOTE THEN
            LET r == scanstring(s, idx + 1)
            IN  IF r.ok THEN ScanOk(PyStr(r.val), r.end) ELSE r
        ELSE IF nextchar = "{" THEN JSONObject(s, idx + 1)
        ELSE IF nextchar = "[" THEN JSONArray(s, idx + 1)
        ELSE ScanErr("Expecting value", idx)

\* str(JSONDecodeError): "<msg>: line 1 column <pos+1> (char <pos>)".
JSONDecodeErrorStr(msg, pos) ==
    <<msg, ": line 1 column ">> \o IntStr(pos + 1) \o <<" (char ">> \o IntStr(pos) \o <<")">>

\* JSONDecoder.decode after raw_decode gave r: nothing but whitespace may follow.
decode(s, r) ==
    IF ~r.ok THEN Raise("JSONDecodeError", JSONDecodeErrorStr(r.msg, r.end))
    ELSE IF SkipWs(s, r.end) # Len(s)
    THEN Raise("JSONDecodeError", JSONDecodeErrorStr("Extra data", SkipWs(s, r.end)))
    ELSE Return(r.val)

\* json.loads(s): one value between optional whitespace
json_loads(s) == decode(s, scan_once(s, SkipWs(s, 0)))

(***************************************************************************)
(* str.find / str.rfind of a single character.                             *)
(***************************************************************************)
Find(text, c) ==
    IF \E i \in 1..Len(text) : text[i] = c
    THEN (CHOOSE i \in 1..Len(text) : text[i] = c /\ \A j \in 1..(i - 1) : text[j] # c) - 1
    ELSE -1

RFind(text, c) ==
    IF \E i \in 1..Len(text) : text[i] = c
    THEN (CHOOSE i \in 1..Len(text) : text[i] = c /\ \A j \in (i + 1)..Len(text) : text[j] # c) - 1
    ELSE -1

\* variant: a default value instead of the ValueError
LocateJsonBlock_default(text, e) ==
    LET start == Find(text, "{")
        end == RFind(text, "}")
    IN  IF start # -1 /\ end # -1 /\ end > start
        THEN json_loads(Slice(text, start, end + 1))
        ELSE Return(PyDict(<<>>))

\* variant: the candidate stops before the last brace, text[start:end]
LocateJsonBlock_short(text, e) ==
    LET start == Find(text, "{")
        end == RFind(text, "}")
    IN  IF start # -1 /\ end # -1 /\ end > start
        THEN json_loads(Slice(text, start, end))
        ELSE Raise("ValueError",
                   <<"Failed to parse JSON: ">> \o e.msg \o <<"\nResponse was:\n">> \o text)

\* the except branch of extract_json_or_raise; e is what json.loads(text) raised
LocateJsonBlock(text, e) ==
    LET start == Find(text, "{")
        end == RFind(text, "}")
    IN  IF start # -1 /\ end # -1 /\ end > start
        THEN json_loads(Slice(text, start, end + 1))
        ELSE Raise("ValueError",
                   <<"Failed to parse JSON: ">> \o e.msg \o <<"\nResponse was:\n">> \o text)

\* strict is the outcome of json.loads(text)
ExtractFrom(text, strict) ==
    IF ~strict.raised THEN strict ELSE LocateJsonBlock(text, strict)

extract_json_or_raise(text) == ExtractFrom(text, json_loads(text))

(***************************************************************************)
(* json.dumps with the default separators (", " and ": "), on values whose *)
(* strings hold no quote character (none needs an escape over Alphabet).   *)
(***************************************************************************)
RECURSIVE json_dumps(_)
RECURSIVE DumpItems(_, _)
DumpItems(xs, isDict) ==
    IF xs = <<>> THEN <<>>
    ELSE LET one == IF isDict
                    THEN <<QUOTE>> \o xs[1].k \o <<QUOTE, ":", " ">> \o json_dumps(xs[1].val)
                    ELSE json_dumps(xs[1])
         IN  IF Len(xs) = 1 THEN one
             ELSE one \o <<",", " ">> \o DumpItems(Tail(xs), isDict)

json_dumps(x) ==
    IF x.type = "str" THEN <<QUOTE>> \o x.v \o <<QUOTE>>
    ELSE IF x.type = "list" THEN <<"[">> \o DumpItems(x.v, FALSE) \o <<"]">>
    ELSE <<"{">> \o DumpItems(x.v, TRUE) \o <<"}">>

(***************************************************************************)
(* data.get(key, []) and companies[:n] on whatever json.loads returned.    *)
(***************************************************************************)
\* data.get(key, default): only a dict has .get.
Get(data, key, default) ==
    IF data.type # "dict"
    THEN Raise("AttributeError", <<"'", data.type, "' object has no attribute 'get'">>)
    ELSE IF \E i \in 1..Len(data.v) : data.v[i].k = key
         THEN Return(data.v[CHOOSE i \in 1..Len(data.v) : data.v[i].k = key].val)
         ELSE Return(default)

\* x[:n] for n >= 1: a prefix of a list or str; a dict cannot be sliced (the
\* TypeError of Python up to 3.11; later versions raise a KeyError instead).
Prefix(x, n) ==
    IF x.type = "dict" THEN Raise("TypeError", <<"unhashable type: 'slice'">>)
    ELSE Return([type |-> x.type, v |-> Slice(x.v, 0, n)])

\* variant: the window without its cap of 10
Window_uncapped(max_companies) == Max(1, max_companies)

\* the window of run_company_finder: max(1, min(max_companies, 10))
Window(max_companies) == Max(1, Min(max_companies, 10))

(***************************************************************************)
(* Stage runners.  resp is the outcome of agent.run(prompt): the reply     *)
(* text str(resp.content) as a PyStr, or the exception the gateway raised. *)
(***************************************************************************)
\* the part shared by the four runners: parse the reply and take one key
\* data is the outcome of extract_json_or_raise: data.get(key, [])
GetKey(data, key) ==
    IF data.raised THEN data ELSE Get(data.value, key, EmptyList)

ReplyKey(resp, key) ==
    IF resp.raised THEN resp ELSE GetKey(extract_json_or_raise(resp.value.v), key)

\* companies is the outcome of data.get("companies", []): companies[: max(1, min(n, 10))]
Clamp(companies, max_companies) ==
    IF companies.raised THEN companies
    ELSE Prefix(companies.value, Window(max_companies))

run_company_finder(resp, max_companies) ==
    Clamp(ReplyKey(resp, KeyCompanies), max_companies)

run_contact_finder(resp) == ReplyKey(resp, KeyCompanies)

run_research(resp) == ReplyKey(resp, KeyCompanies)

run_email_writer(resp) == ReplyKey(resp, KeyEmails)

(***************************************************************************)
(* Bounds of the model and the inputs drawn within them.                   *)
(***************************************************************************)
MaxRuns == 2

MaxRequested == 1

MaxTextLen == 3

MaxReturned == 11

MaxCount == 12

LetterSeq == <<"a", "c", "e", "i", "l", "m", "n", "o", "p", "s">>

KeyName == <<"n", "a", "m", "e">>

\* the i-th company of a reply: {"name": <i-th name>}
CompanyName(i) ==
    IF i <= 10 THEN <<LetterSeq[i]>>
    ELSE <<LetterSeq[(i - 1) \div 10], LetterSeq[((i - 1) % 10) + 1]>>

Company(i) == PyDict(<<[k |-> KeyName, val |-> PyStr(CompanyName(i))]>>)

CompanyList(n) == PyList([i \in 1..n |-> Company(i)])

Doc(key, val) == PyDict(<<[k |-> key, val |-> val]>>)

ProseBefore == <<"s", "e", "e", " ">>

ProseAfter == <<" ", "a", "l", "l">>

\* replies the model may give at any stage
Replies ==
    { json_dumps(Doc(KeyCompanies, CompanyList(3))),
      json_dumps(Doc(KeyCompanies, EmptyList)),
      json_dumps(Doc(KeyEmails, CompanyList(1))),
      json_dumps(PyDict(<<>>)),
      ProseBefore \o json_dumps(Doc(KeyCompanies, CompanyList(1))) \o ProseAfter,
      json_dumps(CompanyList(1)),
      json_dumps(Doc(KeyCompanies, Company(1))),
      <<"n", "o", "n", "e">>,
      ProseBefore \o <<"{", "n", "o", "n", "e", "}">> \o ProseAfter }

GatewayOutcomes ==
    {Return(PyStr(t)) : t \in Replies} \cup {Raise("GatewayError", <<"rate limit exceeded">>)}

\* the agents in the order main() creates them
AgentOrder == <<"company_finder", "contact_finder", "researcher", "email_writer">>

AgentNames == {AgentOrder[i] : i \in 1..Len(AgentOrder)}

\* st.number_input("Number of companies", min_value=1, max_value=10, value=5)
DefaultCount == 5

\* the counts a request may carry: the default and the smallest ones
NumCompaniesChoices == (1..MaxRequested) \cup {DefaultCount}

Absent == [type |-> "absent", v |-> <<>>]

VARIABLES
    openai_key, exa_key,            \* sidebar text inputs
    target_desc, offering_desc,     \* text areas
    num_companies,                  \* number input
    stage,                          \* where the orchestrator is
    progress,                       \* st.progress value
    agents,                         \* agents created by this run
    invoked,                        \* agent.run calls of this run, in order
    resp,                           \* outcome of the latest agent.run
    companies, contacts_data, research_data, emails,
    gtm_results,                    \* st.session_state["gtm_results"]
    st_error,                       \* text shown by st.error
    results_before,                 \* gtm_results when the current run was requested
    runs,                           \* number of runs requested so far
    fn_call, fn_text, fn_n, fn_x, fn_out   \* a single call of one function

pipeline_vars ==
    <<openai_key, exa_key, target_desc, offering_desc, num_companies, stage, progress,
      agents, invoked, resp, companies, contacts_data, research_data, emails,
      gtm_results, st_error, results_before, runs>>

fn_vars == <<fn_call, fn_text, fn_n, fn_x, fn_out>>

vars == <<pipeline_vars, fn_vars>>

NoCall == Return(None)

FnIdle ==
    /\ fn_call = "none"
    /\ fn_text = <<>>
    /\ fn_n = 0
    /\ fn_x = None
    /\ fn_out = NoCall

PipelineIdle ==
    /\ openai_key = ""
    /\ exa_key = ""
    /\ target_desc = ""
    /\ offering_desc = ""
    /\ num_companies = DefaultCount
    /\ stage = "Idle"
    /\ progress = 0
    /\ agents = {}
    /\ invoked = <<>>
    /\ resp = NoCall
    /\ companies = None
    /\ contacts_data = None
    /\ research_data = None
    /\ emails = None
    /\ gtm_results = Absent
    /\ st_error = <<>>
    /\ results_before = Absent
    /\ runs = 0

Init == PipelineIdle /\ FnIdle

(***************************************************************************)
(* main(): one click of "Start Outreach", stage by stage.                  *)
(***************************************************************************)
\* variant: the handler stores what the run has so far
Fail_partial(e) ==
    /\ stage' = "Failed"
    /\ st_error' = e.msg
    /\ gtm_results' = [type |-> "results", v |-> <<companies, contacts_data, research_data, emails>>]

\* variant: the handler leaves the run at the stage that raised
Fail_retry(e) ==
    /\ stage' = stage
    /\ st_error' = e.msg
    /\ UNCHANGED gtm_results

\* except Exception as e: stage_msg.error("Pipeline failed"); st.error(f"{e}")
Fail(e) ==
    /\ stage' = "Failed"
    /\ st_error' = e.msg
    /\ UNCHANGED gtm_results

\* variant: the contact stage runs whatever the companies
ContactFinderPrecondition_always(cs) == TRUE

\* `... if companies else []` of the contact stage
ContactFinderPrecondition(cs) == Truthy(cs)

\* `... if companies else []` of the research stage
ResearchPrecondition(cs) == Truthy(cs)

\* variant: the email stage runs whatever the contacts
EmailWriterPrecondition_always(contacts) == TRUE

\* `... if contacts_data else []` of the email stage
EmailWriterPrecondition(contacts) == Truthy(contacts)

\* variant: only both keys missing blocks the run
KeysMissing_both(ok, ek) == ok = "" /\ ek = ""

\* `if not openai_key or not exa_key`
KeysMissing(ok, ek) == ok = "" \/ ek = ""

\* `elif not target_desc or not offering_desc`
InputsMissing(td, od) == td = "" \/ od = ""

\* the call a runner makes: the agent and the data formatted into its prompt
Call(agent, args) == [agent |-> agent, args |-> args]

\* st.session_state["gtm_results"] = {...}
Bundle(cs, contacts, research, mails) ==
    [type |-> "results", v |-> <<cs, contacts, research, mails>>]

\* the button, the validation and the creation of the four agents
StartOutreach ==
    /\ stage \in {"Idle", "Completed", "Failed"}
    /\ runs < MaxRuns
    /\ runs' = runs + 1
    /\ \E ok \in {"", "sk"}, ek \in {"", "ex"}, td \in {"", "fintech"}, od \in {"", "saas"},
          n \in NumCompaniesChoices :
          /\ openai_key' = ok
          /\ exa_key' = ek
          /\ target_desc' = td
          /\ offering_desc' = od
          /\ num_companies' = n
          /\ progress' = 0
          /\ invoked' = <<>>
          /\ resp' = NoCall
          /\ companies' = None
          /\ contacts_data' = None
          /\ research_data' = None
          /\ emails' = None
          /\ results_before' = gtm_results
          /\ IF KeysMissing(ok, ek)
             THEN /\ st_error' = <<"Please provide API keys in the sidebar">>
                  /\ stage' = "Idle"
                  /\ agents' = {}
                  /\ UNCHANGED gtm_results
             ELSE IF InputsMissing(td, od)
             THEN /\ st_error' = <<"Please fill in target companies and offering">>
                  /\ stage' = "Idle"
                  /\ agents' = {}
                  /\ UNCHANGED gtm_results
             ELSE \E created \in 0..Len(AgentOrder) :
                  \* the first `created` agents exist when a constructor raises
                  IF created < Len(AgentOrder)
                  THEN /\ agents' = {AgentOrder[i] : i \in 1..created}
                       /\ Fail(Raise("Exception", <<"agent could not be created">>))
                  ELSE /\ agents' = AgentNames
                       /\ stage' = "FindingCompanies"
                       /\ st_error' = <<>>
                       /\ UNCHANGED gtm_results
    /\ UNCHANGED fn_vars

\* 1. Companies
FindCompanies ==
    /\ stage = "FindingCompanies"
    /\ \E r \in GatewayOutcomes :
          \E out \in {run_company_finder(r, num_companies)} :
              /\ invoked' = Append(invoked, Call("company_finder", <<IntStr(num_companies)>>))
              /\ resp' = r
              /\ IF out.raised
                 THEN /\ Fail(out)
                      /\ UNCHANGED <<companies, progress>>
                 ELSE /\ companies' = out.value
                      /\ progress' = 25
                      /\ stage' = "FindingContacts"
                      /\ UNCHANGED <<st_error, gtm_results>>
    /\ UNCHANGED <<openai_key, exa_key, target_desc, offering_desc, num_companies, agents,
                   contacts_data, research_data, emails, results_before, runs, fn_vars>>

\* 2. Contacts
FindContacts ==
    /\ stage = "FindingContacts"
    /\ \E r \in GatewayOutcomes :
          \E called \in {ContactFinderPrecondition(companies)} :
          \E out \in {IF called THEN run_contact_finder(r) ELSE Return(EmptyList)} :
              /\ invoked' = IF called
                            THEN Append(invoked, Call("contact_finder", <<json_dumps(companies)>>))
                            ELSE invoked
              /\ resp' = IF called THEN r ELSE resp
              /\ IF out.raised
                 THEN /\ Fail(out)
                      /\ UNCHANGED <<contacts_data, progress>>
                 ELSE /\ contacts_data' = out.value
                      /\ progress' = 50
                      /\ stage' = "Researching"
                      /\ UNCHANGED <<st_error, gtm_results>>
    /\ UNCHANGED <<openai_key, exa_key, target_desc, offering_desc, num_companies, agents,
                   companies, research_data, emails, results_before, runs, fn_vars>>

\* 3. Research
Research ==
    /\ stage = "Researching"
    /\ \E r \in GatewayOutcomes :
          \E called \in {ResearchPrecondition(companies)} :
          \E out \in {IF called THEN run_research(r) ELSE Return(EmptyList)} :
              /\ invoked' = IF called
                            THEN Append(invoked, Call("researcher", <<json_dumps(companies)>>))
                            ELSE invoked
              /\ resp' = IF called THEN r ELSE resp
              /\ IF out.raised
                 THEN /\ Fail(out)
                      /\ UNCHANGED <<research_data, progress>>
                 ELSE /\ research_data' = out.value
                      /\ progress' = 75
                      /\ stage' = "WritingEmails"
                      /\ UNCHANGED <<st_error, gtm_results>>
    /\ UNCHANGED <<openai_key, exa_key, target_desc, offering_desc, num_companies, agents,
                   companies, contacts_data, emails, results_before, runs, fn_vars>>

\* 4. Emails, then the store of the whole bundle
WriteEmails ==
    /\ stage = "WritingEmails"
    /\ \E r \in GatewayOutcomes :
          \E called \in {EmailWriterPrecondition(contacts_data)} :
          \E out \in {IF called THEN run_email_writer(r) ELSE Return(EmptyList)} :
              /\ invoked' = IF called
                            THEN Append(invoked,
                                        Call("email_writer",
                                             <<json_dumps(contacts_data), json_dumps(research_data)>>))
                            ELSE invoked
              /\ resp' = IF called THEN r ELSE resp
              /\ IF out.raised
                 THEN /\ Fail(out)
                      /\ UNCHANGED <<emails, progress>>
                 ELSE /\ emails' = out.value
                      /\ progress' = 100
                      /\ gtm_results' = Bundle(companies, contacts_data, research_data, out.value)
                      /\ stage' = "Completed"
                      /\ UNCHANGED st_error
    /\ UNCHANGED <<openai_key, exa_key, target_desc, offering_desc, num_companies, agents,
                   companies, contacts_data, research_data, results_before, runs, fn_vars>>

Next ==
    \/ StartOutreach
    \/ FindCompanies
    \/ FindContacts
    \/ Research
    \/ WriteEmails

Spec == Init /\ [][Next]_vars

(***************************************************************************)
(* Single calls of extract_json_or_raise and of the four runners, on       *)
(* inputs drawn from bounded sets.                                         *)
(***************************************************************************)
SmallAlphabet == {"{", "}", "[", "]", ",", ":", QUOTE, " ", "a"}

\* every text over SmallAlphabet of at most MaxTextLen characters
ShortTexts == UNION {[1..n -> SmallAlphabet] : n \in 0..MaxTextLen}

Strs == {PyStr(<<>>), PyStr(<<"a">>), PyStr(<<"{">>), PyStr(<<"}", " ">>), PyStr(<<",">>)}

Leaves == Strs \cup {PyList(<<>>), PyDict(<<>>)}

Keys == {<<>>, <<"a">>, KeyCompanies, KeyEmails}

\* JSON values of depth <= 2
Values ==
    Leaves
    \cup {PyList(<<a>>) : a \in Leaves}
    \cup {PyList(<<a, b>>) : a \in Leaves, b \in Leaves}
    \cup {Doc(k, a) : k \in Keys, a \in Leaves}
    \cup {PyDict(<<[k |-> KeyCompanies, val |-> a], [k |-> KeyEmails, val |-> b]>>) :
            a \in Leaves, b \in Leaves}
    \cup {Doc(k, PyList(<<Doc(<<"a">>, a)>>)) : k \in {KeyCompanies, KeyEmails}, a \in Leaves}

Dicts == {x \in Values : x.type = "dict"}

\* prose without braces put before and after a JSON object
Prose == {<<>>, <<" ">>, ProseBefore, ProseAfter}

RequestedCounts == (0 - 1)..MaxCount

\* plain texts
InitText ==
    /\ fn_text \in ShortTexts
    /\ fn_x = None
    /\ fn_n = DefaultCount

\* fn_text = json.dumps(fn_x)
InitSerialized ==
    /\ fn_x \in Values
    /\ fn_text = json_dumps(fn_x)
    /\ fn_n = DefaultCount

\* fn_text = prose + json.dumps(fn_x) + prose, fn_x a dict
InitWrapped ==
    /\ fn_x \in Dicts
    /\ \E before \in Prose, after \in Prose : fn_text = before \o json_dumps(fn_x) \o after
    /\ fn_n = DefaultCount

\* fn_text = json.dumps({"companies": L}) and a requested count
InitCompanies ==
    /\ \E k \in 0..MaxReturned : fn_x = Doc(KeyCompanies, CompanyList(k))
    /\ fn_text = json_dumps(fn_x)
    /\ fn_n \in RequestedCounts

InitFn ==
    /\ PipelineIdle
    /\ fn_call = "none"
    /\ fn_out = NoCall
    /\ (InitText \/ InitSerialized \/ InitWrapped \/ InitCompanies)

FnReply == Return(PyStr(fn_text))

CallExtractJson ==
    /\ fn_call = "none"
    /\ fn_call' = "extract_json_or_raise"
    /\ fn_out' = extract_json_or_raise(fn_text)
    /\ UNCHANGED <<fn_text, fn_n, fn_x, pipeline_vars>>

CallCompanyFinder ==
    /\ fn_call = "none"
    /\ fn_call' = "run_company_finder"
    /\ fn_out' = run_company_finder(FnReply, fn_n)
    /\ UNCHANGED <<fn_text, fn_n, fn_x, pipeline_vars>>

CallContactFinder ==
    /\ fn_call = "none"
    /\ fn_call' = "run_contact_finder"
    /\ fn_out' = run_contact_finder(FnReply)
    /\ UNCHANGED <<fn_text, fn_n, fn_x, pipeline_vars>>

CallResearch ==
    /\ fn_call = "none"
    /\ fn_call' = "run_research"
    /\ fn_out' = run_research(FnReply)
    /\ UNCHANGED <<fn_text, fn_n, fn_x, pipeline_vars>>

CallEmailWriter ==
    /\ fn_call = "none"
    /\ fn_call' = "run_email_writer"
    /\ fn_out' = run_email_writer(FnReply)
    /\ UNCHANGED <<fn_text, fn_n, fn_x, pipeline_vars>>

NextFn ==
    \/ CallExtractJson
    \/ CallCompanyFinder
    \/ CallContactFinder
    \/ CallResearch
    \/ CallEmailWriter

SpecFn == InitFn /\ [][NextFn]_vars

(***************************************************************************)
(* Properties.                                                             *)
(***************************************************************************)
Contains(msg, text) ==
    \E i \in 0..(Len(msg) - Len(text)) : SubSeq(msg, i + 1, i + Len(text)) = text

NoBrace(text) == \A i \in 1..Len(text) : text[i] \notin {"{", "}"}

IsEmptyList(x) == x.type = "list" /\ x.v = <<>>

HasKey(x, key) == x.type = "dict" /\ \E i \in 1..Len(x.v) : x.v[i].k = key

Invoked(agent) == \E i \in 1..Len(invoked) : invoked[i].agent = agent

InRun == stage \in {"FindingCompanies", "FindingContacts", "Researching", "WritingEmails"}

NextStage(st) ==
    CASE st = "FindingCompanies" -> "FindingContacts"
      [] st = "FindingContacts" -> "Researching"
      [] st = "Researching" -> "WritingEmails"
      [] st = "WritingEmails" -> "Completed"
      [] OTHER -> "Idle"

StageAgent(st) ==
    CASE st = "FindingCompanies" -> "company_finder"
      [] st = "FindingContacts" -> "contact_finder"
      [] st = "Researching" -> "researcher"
      [] st = "WritingEmails" -> "email_writer"
      [] OTHER -> "none"

AgentRank(agent) ==
    CASE agent = "company_finder" -> 1
      [] agent = "contact_finder" -> 2
      [] agent = "researcher" -> 3
      [] agent = "email_writer" -> 4

SameResults(a, b) ==
    /\ a.type = b.type
    /\ a.type = "results" => \A i \in 1..4 : a.v[i].type = b.v[i].type /\ a.v[i].v = b.v[i].v

\* C1: the stored result changes only when a run completes, and then it is the
\* whole bundle of that run; during a run, after a failed run and after a refused
\* request it is the result that was stored when the run was requested.
C1_StoredOnlyAtCompletion ==
    /\ stage # "Completed" => SameResults(gtm_results, results_before)
    /\ stage = "Completed" =>
          /\ gtm_results.type = "results"
          /\ SameResults(gtm_results,
                         [type |-> "results",
                          v |-> <<companies, contacts_data, research_data, emails>>])

C1_Witness ==
    /\ stage = "Failed"
    /\ progress >= 50
    /\ Truthy(companies)
    /\ results_before.type = "results"
    /\ gtm_results.type = "results"

\* CompanyFinder has yielded an empty list in the current run
C2_EmptyCompanies == companies.type = "list" /\ companies.v = <<>>

C2_Inv ==
    C2_EmptyCompanies =>
        /\ ~Invoked("contact_finder")
        /\ ~Invoked("researcher")
        /\ ~Invoked("email_writer")
        /\ stage \in {"FindingContacts", "Researching", "WritingEmails", "Completed"}
        /\ stage = "Completed" =>
              /\ gtm_results.type = "results"
              /\ \A i \in 1..4 : IsEmptyList(gtm_results.v[i])

\* C2: once CompanyFinder has yielded an empty list, the contact and research
\* gateways are not invoked, every step goes on to the next stage and never to
\* Failed, and the completed run stores empty contacts, research and emails.
C2_ShortCircuitOnNoCompanies ==
    /\ []C2_Inv
    /\ [][(C2_EmptyCompanies /\ InRun) => stage' = NextStage(stage)]_vars

C2_Witness ==
    /\ stage = "Completed"
    /\ C2_EmptyCompanies
    /\ Len(invoked) = 1
    /\ results_before.type = "results"

\* CompanyFinder has yielded companies and ContactFinder an empty list
C3_NoContacts == Truthy(companies) /\ IsEmptyList(contacts_data)

\* C3 as stated: with companies but an empty contact list the email gateway is
\* not invoked, the research gateway is, and the run does not fail but completes
\* with no emails.
C3_Original ==
    C3_NoContacts =>
        /\ ~Invoked("email_writer")
        /\ progress >= 75 => Invoked("researcher")
        /\ stage # "Failed"
        /\ stage = "Completed" => IsEmptyList(emails)

C3_Inv ==
    C3_NoContacts =>
        /\ ~Invoked("email_writer")
        /\ Invoked("contact_finder")
        /\ progress >= 75 => Invoked("researcher")
        /\ stage = "Failed" => (progress = 50 /\ invoked[Len(invoked)].agent = "researcher")
        /\ stage = "Completed" => (IsEmptyList(emails) /\ IsEmptyList(gtm_results.v[4]))

\* C3 amended: with companies but an empty contact list the email gateway is not
\* invoked and the research gateway is; the run can fail only in the research
\* stage, and otherwise completes with no emails.
C3_NoEmailsWithoutContacts ==
    /\ []C3_Inv
    /\ [][(C3_NoContacts /\ stage = "WritingEmails") => stage' = "Completed"]_vars

C3_Witness ==
    /\ stage = "Completed"
    /\ C3_NoContacts
    /\ Invoked("researcher")
    /\ Truthy(research_data)

C4_Order ==
    \A i, j \in 1..Len(invoked) :
        i < j => AgentRank(invoked[i].agent) < AgentRank(invoked[j].agent)

C4_Step ==
    IF InRun
    THEN /\ runs' = runs
         /\ stage' \in {NextStage(stage), "Failed"}
         /\ \/ invoked' = invoked
            \/ /\ Len(invoked') = Len(invoked) + 1
               /\ SubSeq(invoked', 1, Len(invoked)) = invoked
               /\ invoked'[Len(invoked')].agent = StageAgent(stage)
         /\ stage' = "Failed" => invoked' # invoked
    ELSE /\ runs' = runs + 1
         /\ invoked' = <<>>
         /\ stage' \in {"Idle", "FindingCompanies", "Failed"}

\* C4: within a run the gateways are invoked in the order company finder, contact
\* finder, researcher, email writer, each at most once; every step of a run moves
\* to the next stage or to Failed and invokes at most the gateway of the stage it
\* leaves; after Failed (or Completed) nothing happens but a new request.
C4_ForwardOnly == []C4_Order /\ [][C4_Step]_vars

C4_Witness ==
    /\ stage = "Failed"
    /\ Len(invoked) = 3
    /\ invoked[3].agent = "researcher"
    /\ runs = MaxRuns

\* C5: whenever extract_json_or_raise raises, the error text contains the raw
\* reply.
C5_ErrorCarriesReply ==
    (fn_call = "extract_json_or_raise" /\ fn_out.raised) => Contains(fn_out.msg, fn_text)

C6_Runners == {"run_company_finder", "run_contact_finder", "run_research", "run_email_writer"}

\* C6: a reply that parses but lacks the runner's key makes the runner return
\* an empty list.
C6_MissingKeyIsEmpty ==
    (/\ fn_call \in C6_Runners
     /\ ~extract_json_or_raise(fn_text).raised
     /\ ~HasKey(extract_json_or_raise(fn_text).value,
                IF fn_call = "run_email_writer" THEN KeyEmails ELSE KeyCompanies))
    => (~fn_out.raised /\ IsEmptyList(fn_out.value))

\* run_company_finder was called on the reply json.dumps({"companies": L})
C7_IsCompaniesReply ==
    /\ fn_call = "run_company_finder"
    /\ fn_x.type = "dict"
    /\ fn_text = json_dumps(fn_x)
    /\ Len(fn_x.v) = 1
    /\ fn_x.v[1].k = KeyCompanies
    /\ fn_x.v[1].val.type = "list"

\* C7: on a reply {"companies": L} and a requested count N, run_company_finder
\* returns the first min(len(L), max(1, min(N, 10))) items of L in order; for N
\* in 1..10 no more than N, and for N <= 0 a window of one.
C7_PrefixOfReturned ==
    C7_IsCompaniesReply =>
        LET L == fn_x.v[1].val.v
            n == IF fn_n <= 0 THEN 1 ELSE IF fn_n > 10 THEN 10 ELSE fn_n
            m == IF Len(L) < n THEN Len(L) ELSE n
        IN  /\ ~fn_out.raised
            /\ fn_out.value.type = "list"
            /\ Len(fn_out.value.v) = m
            /\ \A i \in 1..m : fn_out.value.v[i] = L[i]
            /\ fn_n \in 1..10 => (Len(fn_out.value.v) <= fn_n /\ Len(fn_out.value.v) <= Len(L))

C7_Witness ==
    /\ C7_IsCompaniesReply
    /\ Len(fn_x.v[1].val.v) = 11
    /\ fn_n = 12
    /\ Len(fn_out.value.v) = 10

\* C9 as stated: extract_json_or_raise raises on every text without a brace.
C9_Original ==
    (fn_call = "extract_json_or_raise" /\ NoBrace(fn_text)) => fn_out.raised

\* C9 amended: on every text without a brace that is not valid JSON as it stands,
\* extract_json_or_raise raises the ValueError that carries the text (no default
\* value, no parse of a substring).
C9_FailsWithoutBrace ==
    (fn_call = "extract_json_or_raise" /\ NoBrace(fn_text) /\ json_loads(fn_text).raised)
    => /\ fn_out.raised
       /\ fn_out.exc = "ValueError"
       /\ Contains(fn_out.msg, fn_text)

C9_Witness ==
    /\ fn_call = "extract_json_or_raise"
    /\ NoBrace(fn_text)
    /\ Len(fn_text) = 3
    /\ fn_text[1] = "["
    /\ fn_out.raised

\* text[start : end + 1], from the first opening to the last closing brace
C10_Candidate == Slice(fn_text, Find(fn_text, "{"), RFind(fn_text, "}") + 1)

\* C10: a text that parses strictly gives that value, so a serialized value
\* comes back unchanged; otherwise, when the substring from the first opening
\* brace to the last closing brace parses, its value is returned, so an object
\* wrapped in prose comes back unchanged.
C10_StrictThenSubstring ==
    fn_call = "extract_json_or_raise" =>
        /\ fn_x.type # "NoneType" =>
              (/\ ~fn_out.raised
               /\ fn_out.value.type = fn_x.type
               /\ fn_out.value.v = fn_x.v)
        /\ ~json_loads(fn_text).raised => fn_out = json_loads(fn_text)
        /\ (/\ json_loads(fn_text).raised
            /\ Find(fn_text, "{") # -1
            /\ RFind(fn_text, "}") > Find(fn_text, "{")
            /\ ~json_loads(C10_Candidate).raised) => fn_out = json_loads(C10_Candidate)

C10_Witness ==
    /\ fn_call = "extract_json_or_raise"
    /\ fn_x.type = "dict"
    /\ Len(fn_x.v) = 2
    /\ json_loads(fn_text).raised
    /\ ~fn_out.raised
    /\ fn_out.value.v = fn_x.v

\* C8: a request with a missing key starts nothing: the orchestrator is Idle, no
\* agent exists, no gateway was invoked, the stored result is the one from
\* before, and the error shown is the validation message.
C8_NoRunWithoutKeys ==
    (runs > 0 /\ (openai_key = "" \/ exa_key = "")) =>
        /\ stage = "Idle"
        /\ agents = {}
        /\ invoked = <<>>
        /\ progress = 0
        /\ SameResults(gtm_results, results_before)
        /\ st_error = <<"Please provide API keys in the sidebar">>

C8_Witness ==
    /\ runs > 0
    /\ openai_key # ""
    /\ exa_key = ""
    /\ target_desc # ""
    /\ offering_desc # ""
    /\ gtm_results.type = "results"
    /\ stage = "Idle"

====
